---- MODULE Spec2Model ----
(***************************************************************************)
(* Model of dashboard/app.py: the inventory-metrics dashboard.             *)
(*                                                                         *)
(* Two specifications share the module:                                    *)
(*   CalcSpec  compute_metrics as a pure function, applied to a frame      *)
(*             drawn from a bounded set of inputs;                         *)
(*   Spec      the request handlers (signup, login, logout, upload,        *)
(*             dashboard, export_excel, export_pdf) over the process-wide  *)
(*             users / data_store mappings and the clients' sessions.      *)
(***************************************************************************)
EXTENDS Integers, Sequences, FiniteSets, TLC

VARIABLES
    users,        \* app.py:13  username -> password
    data_store,   \* app.py:14  username -> DataFrame (sequence of rows)
    session,      \* flask session of each client: session.get("user")
    response,     \* what the last request handler returned
    arg_df,       \* CalcSpec: the frame object handed to compute_metrics
    ret_df,       \* CalcSpec: the frame compute_metrics returned
    calc_pc       \* CalcSpec: "ready" before the call, "done" after it

vars == <<users, data_store, session, response, arg_df, ret_df, calc_pc>>

(***************************************************************************)
(* Bounds of the model.                                                    *)
(***************************************************************************)
MaxLen == 2        \* longest frame handed to compute_metrics in CalcSpec
MinQty == 1        \* quantities range over -MinQty .. MaxQty
MaxQty == 11
MaxSales == 3      \* daily_sales range over 0 .. MaxSales
MaxRows == 2       \* longest frame kept per user in Spec

(***************************************************************************)
(* Python values of a quantity / daily_sales cell and of a derived metric. *)
(* A number is the exact rational n/d (d > 0, lowest terms); None is the   *)
(* Python None of an object column, NaN the float nan pandas uses for a    *)
(* missing cell, Inf is float("inf").                                      *)
(***************************************************************************)
None == [t |-> "None", n |-> 0, d |-> 1]
NaN == [t |-> "nan", n |-> 0, d |-> 1]
Inf == [t |-> "inf", n |-> 1, d |-> 1]
ZeroDivisionError == [t |-> "ZeroDivisionError", n |-> 0, d |-> 1]
TypeError == [t |-> "TypeError", n |-> 0, d |-> 1]

Abs(x) == IF x < 0 THEN -x ELSE x

RECURSIVE GCD(_, _)
GCD(a, b) == IF b = 0 THEN a ELSE GCD(b, a % b)

\* the rational n/d in lowest terms with a positive denominator (d # 0)
Frac(n, d) ==
    LET g == GCD(Abs(n), Abs(d))
        s == IF d < 0 THEN -1 ELSE 1
    IN  [t |-> "num", n |-> s * (n \div g), d |-> s * (d \div g)]

Num(n) == [t |-> "num", n |-> n, d |-> 1]

\* bool(x): None and zero are falsy; nan and every other number are truthy
truthy(x) ==
    CASE x.t = "None" -> FALSE
      [] x.t = "num" -> x.n # 0
      [] OTHER -> TRUE

\* a / b
truediv(a, b) ==
    CASE a.t = "None" \/ b.t = "None" -> TypeError
      [] b.t = "num" /\ b.n = 0 -> ZeroDivisionError
      [] a.t = "nan" \/ b.t = "nan" -> NaN
      [] OTHER -> Frac(a.n * b.d, a.d * b.n)

\* a < k for an integer k; every comparison with nan is False
less_than(a, k) ==
    CASE a.t = "num" -> a.n < k * a.d
      [] OTHER -> FALSE

(***************************************************************************)
(* compute_metrics (app.py:80-94)                                          *)
(***************************************************************************)
LowStockThreshold == 10

Metrics(st, doi, ls) ==
    [stock_turnover |-> st, days_of_inventory |-> doi, low_stock |-> ls]

\* line 84: daily_sales = row["daily_sales"] if row["daily_sales"] else 0
row_daily_sales(row) ==
    IF truthy(row.daily_sales) THEN row.daily_sales ELSE Num(0)

\* line 85: quantity = row["quantity"] if row["quantity"] else 0
row_quantity(row) ==
    IF truthy(row.quantity) THEN row.quantity ELSE Num(0)

\* line 86
stock_turnover(daily_sales, quantity) ==
    IF truthy(quantity) THEN truediv(daily_sales, quantity) ELSE Num(0)

\* variant of line 87 that yields 0 instead of infinity when nothing sells
days_of_inventory_zero(quantity, daily_sales) ==
    IF truthy(daily_sales) THEN truediv(quantity, daily_sales) ELSE Num(0)

\* line 87
days_of_inventory(quantity, daily_sales) ==
    IF truthy(daily_sales) THEN truediv(quantity, daily_sales) ELSE Inf

\* variant of line 88 with <= in place of <
low_stock_le(row) == less_than(row_quantity(row), LowStockThreshold + 1)

\* variant of line 88 that reads the row's own cell and flags no missing one
low_stock_raw(row) ==
    IF row.quantity.t = "None" THEN FALSE
    ELSE less_than(row.quantity, LowStockThreshold)

\* line 88: the local variable quantity of line 85 is compared
low_stock(row) == less_than(row_quantity(row), LowStockThreshold)

\* lines 84-89: the body of the loop, for one row
row_metrics(row) ==
    LET daily_sales == row_daily_sales(row)
        quantity == row_quantity(row)
    IN  Metrics(stock_turnover(daily_sales, quantity),
                days_of_inventory(quantity, daily_sales),
                low_stock(row))

\* variant of line 90 without .copy(): metric_df is the argument itself
df_alias(df) == [aliased |-> TRUE, rows |-> df]

\* line 90: df.copy() is a new object holding the same rows
df_copy(df) == [aliased |-> FALSE, rows |-> df]

\* variant of lines 91-93 that broadcasts the first row's metrics
assign_first(rows, metrics) ==
    [i \in 1..Len(rows) |->
        [item |-> rows[i].item,
         quantity |-> rows[i].quantity,
         daily_sales |-> rows[i].daily_sales,
         stock_turnover |-> metrics[1].stock_turnover,
         days_of_inventory |-> metrics[1].days_of_inventory,
         low_stock |-> metrics[1].low_stock]]

\* lines 91-93: the three derived columns, assigned row by row
assign_columns(rows, metrics) ==
    [i \in 1..Len(rows) |->
        [item |-> rows[i].item,
         quantity |-> rows[i].quantity,
         daily_sales |-> rows[i].daily_sales,
         stock_turnover |-> metrics[i].stock_turnover,
         days_of_inventory |-> metrics[i].days_of_inventory,
         low_stock |-> metrics[i].low_stock]]

\* The call as a whole: the frame returned (metric_df) and the state of the
\* argument object after the call (df), which differ unless line 90 aliased.
compute_metrics(df) ==
    LET metrics == [i \in 1..Len(df) |-> row_metrics(df[i])]
        copy == df_copy(df)
        metric_df == assign_columns(copy.rows, metrics)
    IN  [df |-> IF copy.aliased THEN metric_df ELSE df,
         metric_df |-> metric_df]

(***************************************************************************)
(* Shared shapes.                                                          *)
(***************************************************************************)
InventoryRecord(item, quantity, daily_sales) ==
    [item |-> item, quantity |-> quantity, daily_sales |-> daily_sales]

SeqsUpTo(S, k) == UNION {[1..m -> S] : m \in 0..k}

\* session.get("user") and dict.get(key) return None for a missing key
NoUser == "<None>"
NoFrame == [present |-> FALSE, rows |-> <<>>]
Frame(rows) == [present |-> TRUE, rows |-> rows]

Response(route, client, status, called, table, body) ==
    [route |-> route, client |-> client, status |-> status,
     called |-> called, table |-> table, body |-> body]

NoResponse == Response("none", "none", "none", FALSE, NoFrame, <<>>)

(***************************************************************************)
(* CalcSpec: compute_metrics applied to one bounded input frame.           *)
(* The inputs are every one-row frame over the wide cell ranges and every  *)
(* frame of up to MaxLen rows over a narrow range of cells.                *)
(***************************************************************************)
Items == {"A", "B"}
CellQuantities == {Num(n) : n \in (-MinQty)..MaxQty} \cup {None, NaN}
CellSales == {Num(n) : n \in 0..MaxSales} \cup {None, NaN}

WideRows ==
    {InventoryRecord(i, q, s) : i \in Items, q \in CellQuantities, s \in CellSales}

NarrowRows ==
    {InventoryRecord(i, q, s) :
        i \in Items, q \in {Num(0), Num(5), Num(20), None}, s \in {Num(0), Num(2), NaN}}

InputFrames == SeqsUpTo(WideRows, 1) \cup SeqsUpTo(NarrowRows, MaxLen)

InitCalc ==
    /\ users = <<>>
    /\ data_store = <<>>
    /\ session = <<>>
    /\ response = NoResponse
    /\ arg_df \in InputFrames
    /\ ret_df = <<>>
    /\ calc_pc = "ready"

CalcCall ==
    /\ calc_pc = "ready"
    /\ LET r == compute_metrics(arg_df)
       IN  /\ arg_df' = r.df
           /\ ret_df' = r.metric_df
    /\ calc_pc' = "done"
    /\ UNCHANGED <<users, data_store, session, response>>

NextCalc == CalcCall

CalcSpec == InitCalc /\ [][NextCalc]_vars

(***************************************************************************)
(* Claims about compute_metrics, checked under CalcSpec.                   *)
(***************************************************************************)
Called == calc_pc = "done"
RowIndex == 1..Len(ret_df)
IsNumber(x) == x.t = "num"
\* a cell the truth test of lines 84-85 replaces by 0: None or zero
IsFalsy(x) == x = None \/ x = Num(0)
\* a missing cell: None in an object column, nan in a numeric one
IsMissing(x) == x = None \/ x = NaN
\* the rational x equals a / b (b # 0), by cross-multiplication
EqualsQuotient(x, a, b) == IsNumber(x) /\ x.n * b.n * a.d = a.n * b.d * x.d

\* C1: the returned frame has the length of the argument, and its row i
\* carries item, quantity and daily_sales of argument row i together with the
\* metrics that argument row i alone yields.
C1_OneToOne ==
    Called =>
        /\ Len(ret_df) = Len(arg_df)
        /\ \A i \in 1..Len(arg_df) :
              /\ ret_df[i].item = arg_df[i].item
              /\ ret_df[i].quantity = arg_df[i].quantity
              /\ ret_df[i].daily_sales = arg_df[i].daily_sales
              /\ ret_df[i] = compute_metrics(<<arg_df[i]>>).metric_df[1]

C1_Witness ==
    /\ Called
    /\ Len(ret_df) = 2
    /\ ret_df[1].item # ret_df[2].item
    /\ ret_df[1].stock_turnover # ret_df[2].stock_turnover
    /\ ret_df[1].low_stock # ret_df[2].low_stock

\* C2: with a missing or falsy quantity / daily_sales taken as 0,
\* stock_turnover is daily_sales / quantity when quantity # 0 and 0 when
\* quantity = 0, whatever daily_sales is.
C2_StockTurnover ==
    Called =>
        \A i \in RowIndex :
            LET q == IF IsMissing(arg_df[i].quantity) THEN Num(0)
                     ELSE arg_df[i].quantity
                s == IF IsMissing(arg_df[i].daily_sales) THEN Num(0)
                     ELSE arg_df[i].daily_sales
            IN  IF q.n # 0
                THEN EqualsQuotient(ret_df[i].stock_turnover, s, q)
                ELSE ret_df[i].stock_turnover = Num(0)

\* C3: days_of_inventory is quantity / daily_sales when daily_sales # 0 (0
\* when quantity is 0 or None), +infinity when daily_sales is 0 or None for
\* any quantity, and nan when the division involves a nan cell; quantity 0
\* with daily_sales 0 gives stock_turnover 0 together with +infinity.
C3_DaysOfInventory ==
    Called =>
        \A i \in RowIndex :
            LET q == arg_df[i].quantity
                s == arg_df[i].daily_sales
                doi == ret_df[i].days_of_inventory
            IN  /\ IsFalsy(s) => doi = Inf
                /\ (IsNumber(s) /\ s.n # 0 /\ IsNumber(q)) => EqualsQuotient(doi, q, s)
                /\ (IsNumber(s) /\ s.n # 0 /\ IsFalsy(q)) => doi = Num(0)
                /\ (s = NaN \/ (q = NaN /\ ~IsFalsy(s))) => doi = NaN
                /\ (q = Num(0) /\ s = Num(0)) =>
                      (ret_df[i].stock_turnover = Num(0) /\ doi = Inf)

C3_Witness ==
    /\ Called
    /\ \E i \in RowIndex :
          /\ arg_df[i].quantity = Num(0)
          /\ arg_df[i].daily_sales = Num(0)
          /\ ret_df[i].days_of_inventory = Inf
          /\ ret_df[i].stock_turnover = Num(0)

\* C4: for a numeric quantity, low_stock is true exactly when quantity < 10,
\* whatever daily_sales is.
C4_LowStock ==
    Called =>
        \A i \in RowIndex :
            IsNumber(arg_df[i].quantity) =>
                (ret_df[i].low_stock <=> arg_df[i].quantity.n < 10 * arg_df[i].quantity.d)

C4_Witness ==
    /\ Called
    /\ \E i \in RowIndex :
          /\ arg_df[i].quantity = Num(10)
          /\ ret_df[i].low_stock = FALSE
          /\ arg_df[i].daily_sales \in {Num(0), Num(1)}

\* The outcome of "row quantity < 10" on the row's own cell: comparing None
\* with a number raises TypeError.
RawLessThanTen(q) ==
    CASE q.t = "None" -> "TypeError"
      [] q.t = "num" /\ q.n < 10 * q.d -> "True"
      [] OTHER -> "False"

\* C5 as stated: low_stock is the comparison of the row's raw quantity cell
\* with 10.
C5_RawQuantity ==
    Called =>
        \A i \in RowIndex :
            (IF ret_df[i].low_stock THEN "True" ELSE "False")
                = RawLessThanTen(arg_df[i].quantity)

\* C5 amended: low_stock is the comparison with 10 of the quantity after a
\* falsy value (None, 0) has been replaced by 0: true for None and for every
\* number below 10, false for 10 and above and for nan.
C5_SubstitutedQuantity ==
    Called =>
        \A i \in RowIndex :
            LET q == arg_df[i].quantity
            IN  ret_df[i].low_stock <=>
                    \/ q = None
                    \/ (IsNumber(q) /\ q.n < 10 * q.d)

C5_Witness ==
    /\ Called
    /\ \E i \in RowIndex : arg_df[i].quantity = None /\ ret_df[i].low_stock = TRUE

(***************************************************************************)
(* Spec: the request handlers.                                             *)
(***************************************************************************)
\* Handlers run one request at a time and read only the requesting client's
\* session, so one client that logs in and out as different users reaches
\* every combination of session user and stored data.
Clients == {"c1"}
Usernames == {"", "alice", "bob"}
Passwords == {"p", "q"}
Methods == {"GET", "POST"}

\* what pd.read_csv can parse from an uploaded file, up to MaxRows rows
AppRows == {InventoryRecord(i, Num(5), Num(2)) : i \in Items}
CsvFrames == SeqsUpTo(AppRows, MaxRows)

\* text of a numeric form field: int() / float() parse it or raise ValueError
FormQuantities == {[text |-> "5", ok |-> TRUE, value |-> 5],
                   [text |-> "abc", ok |-> FALSE, value |-> 0]}
FormSales == {[text |-> "2", ok |-> TRUE, value |-> 2],
              [text |-> "", ok |-> FALSE, value |-> 0]}

\* line 24-26
current_user(c) == session[c]

\* "if not current_user()": None and the empty string are falsy
logged_in(c) == current_user(c) # NoUser /\ current_user(c) # ""

\* dict[key] = value
dict_set(dict, key, value) == (key :> value) @@ dict

\* variant of data_store.get(key) with an empty frame as the default
store_get_default(key) ==
    IF key \in DOMAIN data_store THEN Frame(data_store[key]) ELSE Frame(<<>>)

\* data_store.get(key): the frame stored under key, or None
store_get(key) ==
    IF key \in DOMAIN data_store THEN Frame(data_store[key]) ELSE NoFrame

\* variant of line 75 that keeps one frame for all users
store_set_shared(key, df) == [k \in DOMAIN data_store \cup {key} |-> df]

\* line 75: data_store[current_user()] = df
store_set(key, df) == dict_set(data_store, key, df)

\* variant of line 47 that accepts any credentials
password_matches_any(username, password) == TRUE

\* line 47: users.get(username) == password
password_matches(username, password) ==
    username \in DOMAIN users /\ users[username] = password

Init ==
    /\ users = <<>>
    /\ data_store = <<>>
    /\ session = [c \in Clients |-> NoUser]
    /\ response = NoResponse
    /\ arg_df = <<>>
    /\ ret_df = <<>>
    /\ calc_pc = "unused"

calc_unchanged == UNCHANGED <<arg_df, ret_df, calc_pc>>

\* lines 29-38
signup(c, method, username, password) ==
    /\ IF method = "POST"
       THEN /\ users' = dict_set(users, username, password)
            /\ session' = [session EXCEPT ![c] = username]
            /\ response' = Response("signup", c, "redirect:dashboard", FALSE, NoFrame, <<>>)
       ELSE /\ response' = Response("signup", c, "render:signup.html", FALSE, NoFrame, <<>>)
            /\ UNCHANGED <<users, session>>
    /\ UNCHANGED data_store
    /\ calc_unchanged

\* lines 41-50
login(c, method, username, password) ==
    /\ IF method = "POST" /\ password_matches(username, password)
       THEN /\ session' = [session EXCEPT ![c] = username]
            /\ response' = Response("login", c, "redirect:dashboard", FALSE, NoFrame, <<>>)
       ELSE /\ response' = Response("login", c, "render:login.html", FALSE, NoFrame, <<>>)
            /\ UNCHANGED session
    /\ UNCHANGED <<users, data_store>>
    /\ calc_unchanged

\* lines 53-57
logout(c) ==
    /\ session' = [session EXCEPT ![c] = NoUser]
    /\ response' = Response("logout", c, "redirect:login", FALSE, NoFrame, <<>>)
    /\ UNCHANGED <<users, data_store>>
    /\ calc_unchanged

\* variant of lines 73-74 that starts from a new frame every time
manual_frame_fresh(c, row) == <<row>>

\* lines 73-74: the stored frame (or a new empty one) with one row appended
manual_frame(c, row) ==
    LET df == IF store_get(current_user(c)).present
              THEN store_get(current_user(c)).rows
              ELSE <<>>
    IN  Append(df, row)

\* lines 67-68: the frame read from the file
csv_frame(c, file) == file

\* lines 60-64 and 77: no user, or a GET
upload_form(c, method) ==
    /\ IF ~logged_in(c)
       THEN response' = Response("upload", c, "redirect:login", FALSE, NoFrame, <<>>)
       ELSE /\ method = "GET"
            /\ response' = Response("upload", c, "render:upload.html", FALSE, NoFrame, <<>>)
    /\ UNCHANGED <<users, data_store, session>>
    /\ calc_unchanged

\* lines 65-68, 75-76: POST with a file
upload_csv(c, file) ==
    /\ logged_in(c)
    /\ data_store' = store_set(current_user(c), csv_frame(c, file))
    /\ response' = Response("upload_csv", c, "redirect:dashboard", FALSE, NoFrame, file)
    /\ UNCHANGED <<users, session>>
    /\ calc_unchanged

\* lines 65, 69-76: POST without a file
upload_manual(c, item, quantity, daily_sales) ==
    /\ logged_in(c)
    /\ IF quantity.ok /\ daily_sales.ok
       THEN LET row == InventoryRecord(item, Num(quantity.value), Num(daily_sales.value))
            IN  /\ Len(manual_frame(c, row)) <= MaxRows
                /\ data_store' = store_set(current_user(c), manual_frame(c, row))
                /\ response' = Response("upload_manual", c, "redirect:dashboard",
                                        FALSE, NoFrame, <<row>>)
       ELSE /\ response' = Response("upload_manual", c, "error:ValueError",
                                    FALSE, NoFrame, <<>>)
            /\ UNCHANGED data_store
    /\ UNCHANGED <<users, session>>
    /\ calc_unchanged

\* The frame object stored under key after compute_metrics ran on it.
store_after_call(key, r) ==
    [k \in DOMAIN data_store |-> IF k = key THEN r.df ELSE data_store[k]]

\* lines 97-114
dashboard(c) ==
    /\ IF ~logged_in(c)
       THEN /\ response' = Response("dashboard", c, "redirect:login", FALSE, NoFrame, <<>>)
            /\ UNCHANGED data_store
       ELSE LET df == store_get(current_user(c))
            IN  IF df.present
                THEN LET r == compute_metrics(df.rows)
                     IN  /\ data_store' = store_after_call(current_user(c), r)
                         /\ response' = Response("dashboard", c, "render:dashboard.html",
                                                 TRUE, Frame(r.metric_df), <<>>)
                ELSE /\ response' = Response("dashboard", c, "render:dashboard.html",
                                             FALSE, NoFrame, <<>>)
                     /\ UNCHANGED data_store
    /\ UNCHANGED <<users, session>>
    /\ calc_unchanged

\* lines 120-123, 133-136: what both exports do before formatting
export(c, route, file) ==
    /\ LET df == store_get(current_user(c))
       IN  IF ~df.present
           THEN /\ response' = Response(route, c, "redirect:dashboard", FALSE, NoFrame, <<>>)
                /\ UNCHANGED data_store
           ELSE LET r == compute_metrics(df.rows)
                IN  /\ data_store' = store_after_call(current_user(c), r)
                    /\ response' = Response(route, c, file, TRUE, Frame(r.metric_df), <<>>)
    /\ UNCHANGED <<users, session>>
    /\ calc_unchanged

\* lines 117-127
export_excel(c) == export(c, "export_excel", "send_file:report.xlsx")

\* lines 130-148
export_pdf(c) == export(c, "export_pdf", "send_file:report.pdf")

Next ==
    \/ \E c \in Clients, m \in Methods, u \in Usernames, p \in Passwords : signup(c, m, u, p)
    \/ \E c \in Clients, m \in Methods, u \in Usernames, p \in Passwords : login(c, m, u, p)
    \/ \E c \in Clients : logout(c)
    \/ \E c \in Clients, m \in Methods : upload_form(c, m)
    \/ \E c \in Clients, file \in CsvFrames : upload_csv(c, file)
    \/ \E c \in Clients, i \in Items, q \in FormQuantities, s \in FormSales :
          upload_manual(c, i, q, s)
    \/ \E c \in Clients : dashboard(c)
    \/ \E c \in Clients : export_excel(c)
    \/ \E c \in Clients : export_pdf(c)

Spec == Init /\ [][Next]_vars

(***************************************************************************)
(* Claims about the request handlers, checked under Spec.                  *)
(***************************************************************************)
IsPrefix(s, t) == Len(s) <= Len(t) /\ \A i \in 1..Len(s) : s[i] = t[i]
UploadRoutes == {"upload_csv", "upload_manual"}
ReadRoutes == {"dashboard", "export_excel", "export_pdf"}
ExportRoutes == {"export_excel", "export_pdf"}
StoredFields == {"item", "quantity", "daily_sales"}
\* the session user of the client whose request was answered last
Caller == session[response.client]
Project(rows) ==
    [i \in 1..Len(rows) |->
        InventoryRecord(rows[i].item, rows[i].quantity, rows[i].daily_sales)]

\* C6 as stated: no request removes or replaces a stored row; the rows stored
\* for a user before a request are a prefix of those stored after it.
C6_AppendOnly ==
    [][\A u \in DOMAIN data_store :
          /\ u \in DOMAIN data_store'
          /\ IsPrefix(data_store[u], data_store'[u])]_vars

\* C6 amended: stored rows change only by an upload of their own user; a
\* manual entry appends exactly the submitted row to the rows stored before,
\* and a CSV upload replaces the user's rows by the rows of the file.
C6_AppendOrReplace ==
    [][/\ \A u \in DOMAIN data_store :
             /\ u \in DOMAIN data_store'
             /\ data_store'[u] # data_store[u] =>
                   /\ response'.route \in UploadRoutes
                   /\ response'.status = "redirect:dashboard"
                   /\ u = session[response'.client]
       /\ (response'.route = "upload_manual" /\ response'.status = "redirect:dashboard") =>
             LET u == session[response'.client]
                 before == IF u \in DOMAIN data_store THEN data_store[u] ELSE <<>>
             IN  /\ IsPrefix(before, data_store'[u])
                 /\ data_store'[u] = before \o response'.body
                 /\ Len(response'.body) = 1
       /\ response'.route = "upload_csv" =>
             data_store'[session[response'.client]] = response'.body]_vars

C6_Witness ==
    /\ response.route = "upload_manual"
    /\ response.status = "redirect:dashboard"
    /\ Len(data_store[Caller]) = 2
    /\ data_store[Caller][1] # data_store[Caller][2]

\* C7: a dashboard, export_excel or export_pdf request leaves data_store as
\* it was, and no stored row ever carries a derived field.
C7_MetricsNeverStored ==
    [][/\ response'.route \in ReadRoutes => data_store' = data_store
       /\ \A u \in DOMAIN data_store' :
             \A i \in 1..Len(data_store'[u]) :
                 DOMAIN data_store'[u][i] = StoredFields]_vars

C7_Witness ==
    /\ response.route \in ExportRoutes
    /\ response.called
    /\ Len(response.table.rows) = 2
    /\ "low_stock" \in DOMAIN response.table.rows[1]
    /\ DOMAIN data_store[Caller][1] = StoredFields

\* C8 as stated: with no data_store entry for the caller, a dashboard request
\* renders an empty table and an export redirects to the dashboard, without
\* calling compute_metrics and without an error.
C8_AbsentHandled ==
    (response.route \in ReadRoutes /\ Caller \notin DOMAIN data_store) =>
        /\ ~response.called
        /\ response.route = "dashboard" =>
              (response.status = "render:dashboard.html" /\ response.table = NoFrame)
        /\ response.route \in ExportRoutes => response.status = "redirect:dashboard"

\* C8 amended: as stated, except that the dashboard renders the empty table
\* only for a caller with a non-empty session user, and redirects a caller
\* without one to the login page.
C8_AbsentHandledOrLogin ==
    (response.route \in ReadRoutes /\ Caller \notin DOMAIN data_store) =>
        /\ ~response.called
        /\ response.table = NoFrame
        /\ (response.route = "dashboard" /\ Caller \notin {NoUser, ""}) =>
              response.status = "render:dashboard.html"
        /\ (response.route = "dashboard" /\ Caller \in {NoUser, ""}) =>
              response.status = "redirect:login"
        /\ response.route \in ExportRoutes => response.status = "redirect:dashboard"

C8_Witness ==
    /\ response.route = "dashboard"
    /\ Caller = "alice"
    /\ "alice" \notin DOMAIN data_store
    /\ "bob" \in DOMAIN data_store
    /\ response.status = "render:dashboard.html"

\* C9: every key of data_store and every session user is a registered
\* username, data_store has no entry under None, and a request without a
\* session user obtains no metrics.
C9_KeysAreUsers ==
    /\ DOMAIN data_store \subseteq DOMAIN users
    /\ NoUser \notin DOMAIN data_store
    /\ \A c \in Clients : session[c] # NoUser => session[c] \in DOMAIN users
    /\ (response.route \in ReadRoutes /\ Caller = NoUser) =>
          (~response.called /\ response.table = NoFrame)

C9_Witness ==
    /\ response.route \in ExportRoutes
    /\ Caller = NoUser
    /\ DOMAIN data_store = {"alice", "bob"}
    /\ DOMAIN users = Usernames

\* C10: an upload by session user u changes nothing but data_store[u], and
\* the metrics of a dashboard or export request are those of the rows stored
\* under its session user.
C10_PerUserIsolation ==
    [][/\ response'.route \in UploadRoutes =>
             /\ users' = users
             /\ DOMAIN data_store' \subseteq DOMAIN data_store \cup {session[response'.client]}
             /\ \A v \in DOMAIN data_store \ {session[response'.client]} :
                    v \in DOMAIN data_store' /\ data_store'[v] = data_store[v]
       /\ response'.called =>
             /\ response'.route \in ReadRoutes
             /\ session'[response'.client] \in DOMAIN data_store'
             /\ Project(response'.table.rows) = data_store'[session'[response'.client]]
             /\ response'.table.rows =
                   compute_metrics(data_store'[session'[response'.client]]).metric_df]_vars

C10_Witness ==
    /\ response.route = "upload_csv"
    /\ Caller = "bob"
    /\ DOMAIN data_store = {"alice", "bob"}
    /\ Len(data_store["alice"]) = 2
    /\ Len(data_store["bob"]) = 1
    /\ data_store["bob"][1] # data_store["alice"][1]

====
